---- MODULE Spec2Model ----
(***************************************************************************)
(* DataSyncService (src/unnamed/part_001, "src/services/DataSyncService.js"):*)
(* the offline-first sync engine of AIGENDA.  One JavaScript event-loop     *)
(* task (a handler run up to its next await) is one action.                 *)
(***************************************************************************)
EXTENDS Integers, Sequences, FiniteSets, TLC

\* ------------------------------------------------------------------ bounds
\* number of queueChange calls in one run
MaxEntries == 2
\* number of syncData cycles that may be awaiting a response at the same time
MaxCycles == 2
\* number of syncData cycles started in one run
MaxSyncs == 2
\* the clock advances MaxHours times, by a little more than an hour each time
MaxHours == 1
\* Math.random has MaxRand outcomes
MaxRand == 1

\* ------------------------------------------------------- program constants
\* 60 * 60 * 1000 of markChangesSynced
OneHour == 60 * 60 * 1000

EntityTypes == {"tasks", "activities"}
\* codes of handleSyncErrors: two terminal ones and one that is not
TerminalCodes == {"INVALID_DATA", "PERMISSION_DENIED"}
Codes == TerminalCodes \cup {"RATE_LIMITED"}

\* null / undefined / an absent key is None, a present value x is Some(x)
None == <<>>
Some(x) == <<x>>
Val(o) == o[1]

\* ids: <<prefix, ms, rnd>>; SuppliedId is an id the caller got from the server
SuppliedId == <<"srv_", 0, 0>>
Rands == 1..MaxRand
LocalId(now, rnd) == <<"local_", now, rnd>>

Slots == 1..MaxCycles

VARIABLES
  authToken,          \* this.authToken: TRUE when a token is set
  isOnline,           \* this.isOnline
  syncInterval,       \* this.syncInterval: TRUE when the timer is armed
  pendingChanges,     \* this.pendingChanges: entityType -> sequence of entries
  lastSyncTimestamp,  \* this.lastSyncTimestamp: None or Some(ms)
  localStorage,       \* the two keys aigenda_pending_changes, aigenda_last_sync
  clock,              \* Date.now()
  cycles,             \* the syncData calls that are awaiting a response
  nextUid,            \* number of entries created so far (entry identity)
  nSyncs,             \* number of cycles started so far
  last                \* what the latest task did (observation only)

vars == <<authToken, isOnline, syncInterval, pendingChanges, lastSyncTimestamp,
          localStorage, clock, cycles, nextUid, nSyncs, last>>

\* ----------------------------------------------------------------- helpers
EmptyStore == [t \in {} |-> <<>>]

\* last, after a task that is no continuation of a cycle; saved tells whether
\* the task's write of the pending changes to storage succeeded
NoResponse == [syncedIds |-> EmptyStore, conflicts |-> EmptyStore, errors |-> EmptyStore]
NoEvent == [op |-> "none", result |-> "none", response |-> NoResponse, saved |-> "none"]

\* index of the first element of s satisfying Test, 0 when there is none
\* (Array.prototype.findIndex, with 0 for -1 as sequences start at 1)
FindIndex(s, Test(_)) ==
  IF \E i \in 1..Len(s) : Test(s[i])
  THEN CHOOSE i \in 1..Len(s) : Test(s[i]) /\ \A j \in 1..(i-1) : ~Test(s[j])
  ELSE 0

MapSeq(s, F(_)) == [i \in 1..Len(s) |-> F(s[i])]

\* JSON.stringify / JSON.parse of the pending-changes object: an entry is
\* written as the list of its members, an absent error member is left out
StringifyEntry(e) ==
  <<e.action, e.data.id, e.data.v, e.timestamp, e.synced, e.uid>> \o e.error

ParseEntry(j) ==
  [action |-> j[1], data |-> [id |-> j[2], v |-> j[3]], timestamp |-> j[4],
   synced |-> j[5], uid |-> j[6],
   error |-> IF Len(j) > 6 THEN <<j[7]>> ELSE None]

JSONstringify(store) == [t \in DOMAIN store |-> MapSeq(store[t], StringifyEntry)]
JSONparse(blob) == [t \in DOMAIN blob |-> MapSeq(blob[t], ParseEntry)]

\* Number.prototype.toString / parseInt(s, 10)
NumToString(n) == <<"str", n>>
ParseInt(s) == s[2]

\* --------------------------------------------------- the Local Mutation Log
\* the entry literal of queueChange: no error member, synced false
NewEntry(action, data, now, uid) ==
  [action |-> action, data |-> data, timestamp |-> now, synced |-> FALSE,
   error |-> None, uid |-> uid]

\* this.pendingChanges[entityType], [] when the key is absent
EntriesOf(store, t) == IF t \in DOMAIN store THEN store[t] ELSE <<>>

\* store with key t set to the sequence es
WithKey(store, t, es) ==
  [k \in DOMAIN store \cup {t} |-> IF k = t THEN es ELSE store[k]]

IsUnsynced(e) == ~e.synced

\* variant: without the test unsyncedChanges.length > 0
getUnsyncedEveryKey(store) ==
  [t \in DOMAIN store |-> SelectSeq(store[t], IsUnsynced)]

getUnsynced(store) ==
  LET has == {t \in DOMAIN store : SelectSeq(store[t], IsUnsynced) # <<>>}
  IN  [t \in has |-> SelectSeq(store[t], IsUnsynced)]

\* variant: the first pass tests change.id, which no entry has, instead of
\* change.data.id, and so marks nothing
MarkPassWrongField(es, ids) ==
  [i \in 1..Len(es) |-> es[i]]

\* the two passes of markChangesSynced over one entity type
MarkPass(es, ids) ==
  [i \in 1..Len(es) |->
     IF es[i].data.id \in ids THEN [es[i] EXCEPT !.synced = TRUE] ELSE es[i]]

\* variant: the filter tests the age alone, without !change.synced
SweepPassByAge(es, now) ==
  LET oneHourAgo == now - OneHour
      Keep(e) == e.timestamp > oneHourAgo
  IN  SelectSeq(es, Keep)

SweepPass(es, now) ==
  LET oneHourAgo == now - OneHour
      Keep(e) == ~e.synced \/ e.timestamp > oneHourAgo
  IN  SelectSeq(es, Keep)

\* variant: the filter runs before the map
markChangesSyncedSweepFirst(store, syncedIds, now) ==
  [t \in DOMAIN store |->
     IF t \in DOMAIN syncedIds
     THEN MarkPass(SweepPass(store[t], now), syncedIds[t])
     ELSE store[t]]

markChangesSynced(store, syncedIds, now) ==
  [t \in DOMAIN store |->
     IF t \in DOMAIN syncedIds
     THEN SweepPass(MarkPass(store[t], syncedIds[t]), now)
     ELSE store[t]]

\* one conflict {id, serverVersion} of resolveConflicts on one entity type
ResolveOne(es, c) ==
  LET Hit(e) == e.data.id = c.id /\ ~e.synced
      index == FindIndex(es, Hit)
  IN  IF index # 0
      THEN [es EXCEPT ![index].data = c.serverVersion, ![index].synced = TRUE]
      ELSE es

RECURSIVE ResolveList(_, _)
ResolveList(es, cs) ==
  IF cs = <<>> THEN es ELSE ResolveList(ResolveOne(es, Head(cs)), Tail(cs))

resolveConflicts(store, conflicts) ==
  [t \in DOMAIN store |->
     IF t \in DOMAIN conflicts THEN ResolveList(store[t], conflicts[t])
     ELSE store[t]]

\* variant: findIndex looks for any unsynced entry, not for the one with the
\* reported id
AttachOneAnyId(es, er) ==
  LET index == FindIndex(es, IsUnsynced)
  IN  IF er.code \in TerminalCodes /\ index # 0
      THEN [es EXCEPT ![index].error =
                        Some([code |-> er.code, message |-> er.message])]
      ELSE es

\* one error {id, code, message} of handleSyncErrors on one entity type
AttachOne(es, er) ==
  LET Hit(e) == e.data.id = er.id /\ ~e.synced
      index == FindIndex(es, Hit)
  IN  IF er.code \in TerminalCodes /\ index # 0
      THEN [es EXCEPT ![index].error =
                        Some([code |-> er.code, message |-> er.message])]
      ELSE es

RECURSIVE AttachList(_, _)
AttachList(es, ers) ==
  IF ers = <<>> THEN es ELSE AttachList(AttachOne(es, Head(ers)), Tail(ers))

handleSyncErrors(store, errors) ==
  [t \in DOMAIN store |->
     IF t \in DOMAIN errors THEN AttachList(store[t], errors[t])
     ELSE store[t]]

\* conflicts first, then errors; an absent or empty member is skipped
handleSyncResponse(store, response) ==
  handleSyncErrors(resolveConflicts(store, response.conflicts), response.errors)

\* variant: the synced-marking runs before conflicts and errors are handled
ProcessMarkFirst(store, response, now) ==
  handleSyncResponse(markChangesSynced(store, response.syncedIds, now), response)

\* lines 264-268 of pushChangesToServer: what a push response does to the store
ProcessPushResponse(store, response, now) ==
  markChangesSynced(handleSyncResponse(store, response), response.syncedIds, now)

\* ----------------------------------------------------------- the sync cycle
IdleCycle ==
  [pc |-> "idle", body |-> EmptyStore, start |-> 0, since |-> 0]

HasFree(cyc) == nSyncs < MaxSyncs /\ \E s \in Slots : cyc[s].pc = "idle"
FreeSlot(cyc) ==
  CHOOSE s \in Slots : cyc[s].pc = "idle" /\ \A j \in 1..(s-1) : cyc[j].pc # "idle"

\* the two early returns of syncData
SyncStarts(tok, online) == tok /\ online

\* variant: the pull always asks for everything
SinceParamZero(ckpt) == 0

\* since: this.lastSyncTimestamp || 0
SinceParam(ckpt) == IF ckpt = None THEN 0 ELSE Val(ckpt)

\* syncData up to its first await: the GET /api/sync of pullChangesFromServer
\* is issued with its since parameter; start records when the cycle began
\* (observation only)
syncData(cyc, tok, online, ckpt, now) ==
  IF SyncStarts(tok, online)
  THEN [cyc EXCEPT ![FreeSlot(cyc)] =
          [pc |-> "pull", body |-> EmptyStore,
           start |-> now, since |-> SinceParam(ckpt)]]
  ELSE cyc

\* localStorage.setItem either stores the value or throws (quota)
SetItem(store, key, value, ok) == IF ok THEN [store EXCEPT ![key] = Some(value)] ELSE store

\* savePendingChangesToStorage: a failed write is caught and logged
savePendingChangesToStorage(ls, store, ok) ==
  SetItem(ls, "aigenda_pending_changes", JSONstringify(store), ok)

Init ==
  /\ authToken = FALSE
  /\ isOnline \in BOOLEAN
  /\ syncInterval = FALSE
  /\ pendingChanges = EmptyStore
  /\ lastSyncTimestamp = None
  /\ localStorage = [aigenda_pending_changes |-> None, aigenda_last_sync |-> None]
  /\ clock = 1
  /\ cycles = [s \in Slots |-> IdleCycle]
  /\ nextUid = 1
  /\ nSyncs = 0
  /\ last = NoEvent

\* Date.now() advances, by an hour and a millisecond
Tick ==
  /\ clock \div OneHour < MaxHours
  /\ clock' = clock + OneHour + 1
  /\ last' = NoEvent
  /\ UNCHANGED <<authToken, isOnline, syncInterval, pendingChanges,
                 lastSyncTimestamp, localStorage, cycles, nextUid, nSyncs>>

\* loadPendingChangesFromStorage
LoadedStore ==
  IF localStorage["aigenda_pending_changes"] # None
  THEN JSONparse(Val(localStorage["aigenda_pending_changes"]))
  ELSE pendingChanges

LoadedLastSync ==
  IF localStorage["aigenda_last_sync"] # None
  THEN Some(ParseInt(Val(localStorage["aigenda_last_sync"])))
  ELSE lastSyncTimestamp

initialize ==
  /\ ~syncInterval
  /\ SyncStarts(TRUE, isOnline) => HasFree(cycles)
  /\ authToken' = TRUE
  /\ syncInterval' = TRUE
  /\ pendingChanges' = LoadedStore
  /\ lastSyncTimestamp' = LoadedLastSync
  /\ cycles' = syncData(cycles, TRUE, isOnline, LoadedLastSync, clock)
  /\ nSyncs' = IF SyncStarts(TRUE, isOnline) THEN nSyncs + 1 ELSE nSyncs
  /\ last' = NoEvent
  /\ UNCHANGED <<isOnline, localStorage, clock, nextUid>>

\* variant: the event only records the flag and leaves the sync to the timer
handleOnlineStatusChangeFlagOnly(online) ==
  /\ online # isOnline
  /\ isOnline' = online
  /\ last' = [op |-> "statusChange", result |-> "none", response |-> NoResponse, saved |-> "none"]
  /\ UNCHANGED <<authToken, syncInterval, pendingChanges, lastSyncTimestamp,
                 localStorage, clock, cycles, nextUid, nSyncs>>

\* the online / offline event: navigator.onLine has become `online`
handleOnlineStatusChange(online) ==
  /\ online # isOnline
  /\ SyncStarts(authToken, online) => HasFree(cycles)
  /\ isOnline' = online
  /\ cycles' = syncData(cycles, authToken, online, lastSyncTimestamp, clock)
  /\ nSyncs' = IF SyncStarts(authToken, online) THEN nSyncs + 1 ELSE nSyncs
  /\ last' = [op |-> "statusChange", result |-> "none", response |-> NoResponse, saved |-> "none"]
  /\ UNCHANGED <<authToken, syncInterval, pendingChanges, lastSyncTimestamp,
                 localStorage, clock, nextUid>>

\* the setInterval callback of startSyncInterval
TimerTick ==
  /\ syncInterval
  /\ SyncStarts(authToken, isOnline) => HasFree(cycles)
  /\ cycles' = syncData(cycles, authToken, isOnline, lastSyncTimestamp, clock)
  /\ nSyncs' = IF SyncStarts(authToken, isOnline) THEN nSyncs + 1 ELSE nSyncs
  /\ last' = NoEvent
  /\ UNCHANGED <<authToken, isOnline, syncInterval, pendingChanges,
                 lastSyncTimestamp, localStorage, clock, nextUid>>

\* variant: the store is written before the entry is pushed onto the list and
\* a failed write is not caught, so that the call ends without queuing
queueChangeSaveFirst(entityType, action, given, rnd, saved) ==
  LET id == IF action = "create" /\ given = None THEN LocalId(clock, rnd)
            ELSE Val(given)
      entry == NewEntry(action, [id |-> id, v |-> "local"], clock, nextUid)
      store == IF saved
               THEN WithKey(pendingChanges, entityType,
                            Append(EntriesOf(pendingChanges, entityType), entry))
               ELSE pendingChanges
  IN  /\ nextUid <= MaxEntries
      /\ SyncStarts(authToken, isOnline) => HasFree(cycles)
      /\ pendingChanges' = store
      /\ localStorage' = savePendingChangesToStorage(localStorage, store, saved)
      /\ nextUid' = nextUid + 1
      /\ cycles' = syncData(cycles, authToken, isOnline, lastSyncTimestamp, clock)
      /\ nSyncs' = IF SyncStarts(authToken, isOnline) THEN nSyncs + 1 ELSE nSyncs
      /\ last' = [op |-> "queueChange", result |-> entry.data.id, response |-> NoResponse,
                  saved |-> IF saved THEN "yes" ELSE "no"]
      /\ UNCHANGED <<authToken, isOnline, syncInterval, lastSyncTimestamp, clock>>

\* variant: the entry is queued and saved, and the sync left to the timer
queueChangeNoSync(entityType, action, given, rnd, saved) ==
  LET id == IF action = "create" /\ given = None THEN LocalId(clock, rnd)
            ELSE Val(given)
      entry == NewEntry(action, [id |-> id, v |-> "local"], clock, nextUid)
      store == WithKey(pendingChanges, entityType,
                       Append(EntriesOf(pendingChanges, entityType), entry))
  IN  /\ nextUid <= MaxEntries
      /\ pendingChanges' = store
      /\ localStorage' = savePendingChangesToStorage(localStorage, store, saved)
      /\ nextUid' = nextUid + 1
      /\ last' = [op |-> "queueChange", result |-> entry.data.id, response |-> NoResponse,
                  saved |-> IF saved THEN "yes" ELSE "no"]
      /\ UNCHANGED <<authToken, isOnline, syncInterval, lastSyncTimestamp, clock,
                     cycles, nSyncs>>

\* queueChange(entityType, action, data); given is data.id (None when absent),
\* rnd the outcome of Math.random, saved whether the storage write succeeds
queueChange(entityType, action, given, rnd, saved) ==
  LET id == IF action = "create" /\ given = None THEN LocalId(clock, rnd)
            ELSE Val(given)
      entry == NewEntry(action, [id |-> id, v |-> "local"], clock, nextUid)
      store == WithKey(pendingChanges, entityType,
                       Append(EntriesOf(pendingChanges, entityType), entry))
  IN  /\ nextUid <= MaxEntries
      /\ SyncStarts(authToken, isOnline) => HasFree(cycles)
      /\ pendingChanges' = store
      /\ localStorage' = savePendingChangesToStorage(localStorage, store, saved)
      /\ nextUid' = nextUid + 1
      /\ cycles' = syncData(cycles, authToken, isOnline, lastSyncTimestamp, clock)
      /\ nSyncs' = IF SyncStarts(authToken, isOnline) THEN nSyncs + 1 ELSE nSyncs
      /\ last' = [op |-> "queueChange", result |-> entry.data.id, response |-> NoResponse,
                  saved |-> IF saved THEN "yes" ELSE "no"]
      /\ UNCHANGED <<authToken, isOnline, syncInterval, lastSyncTimestamp, clock>>

\* the calls of queueChange a run makes; W are the outcomes a storage write has
QueueChange(W) ==
  \E entityType \in EntityTypes, saved \in W :
    \/ \E rnd \in Rands : queueChange(entityType, "create", None, rnd, saved)
    \/ queueChange(entityType, "update", Some(SuppliedId), 1, saved)

\* ------------------------------------------------------ the server's answers
IdsIn(es) == {es[i].data.id : i \in 1..Len(es)}

\* the ids of entity type t in the body of a POST /api/sync
BodyIds(body, t) == IF t \in DOMAIN body THEN IdsIn(body[t]) ELSE {}

\* the <<entityType, id>> pairs of the body
BodyItems(body) == UNION {{<<t, i>> : i \in BodyIds(body, t)} : t \in DOMAIN body}

\* syncedIds naming every pushed id, and naming every pushed id but one
AllSynced(body) == [t \in DOMAIN body |-> BodyIds(body, t)]
AllSyncedBut(body, x) ==
  [t \in DOMAIN body |-> IF t = x[1] THEN BodyIds(body, t) \ {x[2]} ELSE BodyIds(body, t)]

ConflictFor(x) ==
  [t \in {x[1]} |-> <<[id |-> x[2], serverVersion |-> [id |-> x[2], v |-> "server"]]>>]
ErrorFor(x, code) ==
  [t \in {x[1]} |-> <<[id |-> x[2], code |-> code, message |-> "rejected"]>>]

\* the response.data of a successful POST: the server accepts every pushed
\* change or none, or reports one of them as a conflict or as an error, and
\* then lists in syncedIds nothing, the others, or (inconsistently) all
Responses(body) ==
  {[syncedIds |-> s, conflicts |-> EmptyStore, errors |-> EmptyStore] :
     s \in {EmptyStore, AllSynced(body)}}
  \cup UNION {
     {[syncedIds |-> s, conflicts |-> ConflictFor(x), errors |-> EmptyStore] :
        s \in {EmptyStore, AllSyncedBut(body, x), AllSynced(body)}}
     \cup {[syncedIds |-> s, conflicts |-> EmptyStore, errors |-> ErrorFor(x, code)] :
        s \in {EmptyStore, AllSyncedBut(body, x), AllSynced(body)}, code \in Codes} :
     x \in BodyItems(body)}

\* ------------------------------------------------------ the change notifier
\* the CustomEvent `aigenda:${entityType}:updated` with its detail
Notification(t, detail) == [name |-> <<"aigenda:", t, ":updated">>, detail |-> detail]

\* emitChangeEvents: one event per entity type of the changes; its only caller
\* is applyServerChanges, on the response of the pull
emitChangeEvents(changes) == {Notification(t, changes[t]) : t \in DOMAIN changes}

\* the events dispatched while a push response is processed: handleSyncResponse,
\* resolveConflicts, handleSyncErrors, markChangesSynced and
\* savePendingChangesToStorage call neither emitChangeEvents nor
\* window.dispatchEvent (the dispatch of resolveConflicts is a comment)
DispatchedByPushResponse(response) == emitChangeEvents(EmptyStore)

\* ------------------------------------------------- the cycle's continuations
\* updateLastSyncTimestamp: the member is set, then setItem stores or throws
CheckpointStored(ls, now, ok) == SetItem(ls, "aigenda_last_sync", NumToString(now), ok)

updateLastSyncTimestamp == Some(clock)

\* variant: as if updateLastSyncTimestamp stood in a finally block, so that a
\* failed pull advanced the checkpoint
PullFailedAdvances(s) ==
  /\ cycles[s].pc = "pull"
  /\ lastSyncTimestamp' = updateLastSyncTimestamp
  /\ localStorage' = CheckpointStored(localStorage, clock, TRUE)
  /\ cycles' = [cycles EXCEPT ![s] = IdleCycle]
  /\ last' = [op |-> "pullFailed", result |-> "false", response |-> NoResponse, saved |-> "none"]
  /\ UNCHANGED <<authToken, isOnline, syncInterval, pendingChanges, clock, nextUid, nSyncs>>

\* the GET fails (network or server error): the catch of syncData returns false
PullFailed(s) ==
  /\ cycles[s].pc = "pull"
  /\ cycles' = [cycles EXCEPT ![s] = IdleCycle]
  /\ last' = [op |-> "pullFailed", result |-> "false", response |-> NoResponse, saved |-> "none"]
  /\ UNCHANGED <<authToken, isOnline, syncInterval, pendingChanges,
                 lastSyncTimestamp, localStorage, clock, nextUid, nSyncs>>

\* the GET succeeds and something is unsynced: the POST is issued
PushIssued(s) ==
  /\ cycles[s].pc = "pull"
  /\ getUnsynced(pendingChanges) # EmptyStore
  /\ cycles' = [cycles EXCEPT ![s].pc = "push",
                              ![s].body = getUnsynced(pendingChanges)]
  /\ last' = [op |-> "pushIssued", result |-> "none", response |-> NoResponse, saved |-> "none"]
  /\ UNCHANGED <<authToken, isOnline, syncInterval, pendingChanges,
                 lastSyncTimestamp, localStorage, clock, nextUid, nSyncs>>

\* variant: updateLastSyncTimestamp stands after the try block of syncData, so
\* that a throwing setItem rejects the promise
PushSkippedUncaught(s, stored) ==
  /\ cycles[s].pc = "pull"
  /\ getUnsynced(pendingChanges) = EmptyStore
  /\ lastSyncTimestamp' = updateLastSyncTimestamp
  /\ localStorage' = CheckpointStored(localStorage, clock, stored)
  /\ cycles' = [cycles EXCEPT ![s] = IdleCycle]
  /\ last' = [op |-> "pushSkipped", result |-> IF stored THEN "true" ELSE "rejected",
              response |-> NoResponse, saved |-> "none"]
  /\ UNCHANGED <<authToken, isOnline, syncInterval, pendingChanges, clock, nextUid, nSyncs>>

\* variant: the early return of pushChangesToServer ends the cycle, as if it
\* returned from syncData too
PushSkippedNoCheckpoint(s, stored) ==
  /\ cycles[s].pc = "pull"
  /\ getUnsynced(pendingChanges) = EmptyStore
  /\ cycles' = [cycles EXCEPT ![s] = IdleCycle]
  /\ last' = [op |-> "pushSkipped", result |-> IF stored THEN "true" ELSE "false",
              response |-> NoResponse, saved |-> "none"]
  /\ UNCHANGED <<authToken, isOnline, syncInterval, pendingChanges, clock, nextUid,
                 nSyncs, lastSyncTimestamp, localStorage>>

\* the GET succeeds and nothing is unsynced: no POST, the checkpoint is updated
PushSkipped(s, stored) ==
  /\ cycles[s].pc = "pull"
  /\ getUnsynced(pendingChanges) = EmptyStore
  /\ lastSyncTimestamp' = updateLastSyncTimestamp
  /\ localStorage' = CheckpointStored(localStorage, clock, stored)
  /\ cycles' = [cycles EXCEPT ![s] = IdleCycle]
  /\ last' = [op |-> "pushSkipped", result |-> IF stored THEN "true" ELSE "false",
              response |-> NoResponse, saved |-> "none"]
  /\ UNCHANGED <<authToken, isOnline, syncInterval, pendingChanges, clock, nextUid, nSyncs>>

\* variant: as if pushChangesToServer swallowed the failure of its POST, so
\* that syncData went on to updateLastSyncTimestamp
PushFailedAdvances(s) ==
  /\ cycles[s].pc = "push"
  /\ lastSyncTimestamp' = updateLastSyncTimestamp
  /\ localStorage' = CheckpointStored(localStorage, clock, TRUE)
  /\ cycles' = [cycles EXCEPT ![s] = IdleCycle]
  /\ last' = [op |-> "pushFailed", result |-> "false", response |-> NoResponse, saved |-> "none"]
  /\ UNCHANGED <<authToken, isOnline, syncInterval, pendingChanges, clock, nextUid, nSyncs>>

\* the POST fails: the catch of syncData returns false
PushFailed(s) ==
  /\ cycles[s].pc = "push"
  /\ cycles' = [cycles EXCEPT ![s] = IdleCycle]
  /\ last' = [op |-> "pushFailed", result |-> "false", response |-> NoResponse, saved |-> "none"]
  /\ UNCHANGED <<authToken, isOnline, syncInterval, pendingChanges,
                 lastSyncTimestamp, localStorage, clock, nextUid, nSyncs>>

\* variant: the response of the POST is dropped when the device has gone
\* offline meanwhile
PushSucceededIfOnline(s, response, saved, stored) ==
  LET store == ProcessPushResponse(pendingChanges, response, clock)
  IN  /\ cycles[s].pc = "push"
      /\ isOnline
      /\ pendingChanges' = store
      /\ lastSyncTimestamp' = updateLastSyncTimestamp
      /\ localStorage' =
           CheckpointStored(savePendingChangesToStorage(localStorage, store, saved),
                            clock, stored)
      /\ cycles' = [cycles EXCEPT ![s] = IdleCycle]
      /\ last' = [op |-> "pushSucceeded", result |-> IF stored THEN "true" ELSE "false",
                  response |-> response,
                  saved |-> IF saved THEN "yes" ELSE "no"]
      /\ UNCHANGED <<authToken, isOnline, syncInterval, clock, nextUid, nSyncs>>

\* the POST succeeds with `response`: handleSyncResponse, markChangesSynced,
\* savePendingChangesToStorage, then updateLastSyncTimestamp of syncData
PushSucceeded(s, response, saved, stored) ==
  LET store == ProcessPushResponse(pendingChanges, response, clock)
  IN  /\ cycles[s].pc = "push"
      /\ pendingChanges' = store
      /\ lastSyncTimestamp' = updateLastSyncTimestamp
      /\ localStorage' =
           CheckpointStored(savePendingChangesToStorage(localStorage, store, saved),
                            clock, stored)
      /\ cycles' = [cycles EXCEPT ![s] = IdleCycle]
      /\ last' = [op |-> "pushSucceeded", result |-> IF stored THEN "true" ELSE "false",
                  response |-> response,
                  saved |-> IF saved THEN "yes" ELSE "no"]
      /\ UNCHANGED <<authToken, isOnline, syncInterval, clock, nextUid, nSyncs>>

PushResponse(s, W) ==
  \E response \in Responses(cycles[s].body), saved \in W, stored \in W :
    PushSucceeded(s, response, saved, stored)

\* the store when the processing of a push response throws a TypeError at
\* the member `broken`, which holds null for an entity type ({tasks: null}):
\* resolveConflicts throws at once; handleSyncErrors throws after the
\* conflicts were resolved; markChangesSynced throws (at ids.includes) after
\* handleSyncResponse has run
PartialProcess(store, response, broken) ==
  CASE broken = "conflicts" -> store
    [] broken = "errors"    -> resolveConflicts(store, response.conflicts)
    [] broken = "syncedIds" -> handleSyncResponse(store, response)

BrokenMembers == {"conflicts", "errors", "syncedIds"}

\* the well-formed members of such a response
ThrowResponses(body) == {r \in Responses(body) : r.syncedIds = EmptyStore}

\* the POST succeeds but the processing of its response throws: the catch of
\* pushChangesToServer rethrows, the catch of syncData returns false; nothing
\* is saved and the checkpoint is left alone
PushThrew(s, response, broken) ==
  /\ cycles[s].pc = "push"
  /\ broken = "syncedIds" => \E t \in DOMAIN pendingChanges : pendingChanges[t] # <<>>
  /\ pendingChanges' = PartialProcess(pendingChanges, response, broken)
  /\ cycles' = [cycles EXCEPT ![s] = IdleCycle]
  /\ last' = [op |-> "pushThrew", result |-> "false", response |-> response,
              saved |-> "none"]
  /\ UNCHANGED <<authToken, isOnline, syncInterval, lastSyncTimestamp, localStorage,
                 clock, nextUid, nSyncs>>

clearAll ==
  /\ pendingChanges' = EmptyStore
  /\ lastSyncTimestamp' = None
  /\ localStorage' = [aigenda_pending_changes |-> None, aigenda_last_sync |-> None]
  /\ syncInterval' = FALSE
  /\ last' = NoEvent
  /\ UNCHANGED <<authToken, isOnline, clock, cycles, nextUid, nSyncs>>

\* every storage write succeeds
StorageWorks == {TRUE}

Next ==
  \/ Tick
  \/ initialize
  \/ \E online \in BOOLEAN : handleOnlineStatusChange(online)
  \/ TimerTick
  \/ QueueChange(StorageWorks)
  \/ \E s \in Slots : PullFailed(s)
  \/ \E s \in Slots : PushIssued(s)
  \/ \E s \in Slots, stored \in StorageWorks : PushSkipped(s, stored)
  \/ \E s \in Slots : PushFailed(s)
  \/ \E s \in Slots : PushResponse(s, StorageWorks)
  \/ clearAll

Spec == Init /\ [][Next]_vars

\* ---------------------------------------------------------------- a restart
\* the service is constructed over the storage an earlier run has left: one
\* unsynced entry, queued at time 0, and no checkpoint
PersistedEntry == NewEntry("create", [id |-> LocalId(0, 1), v |-> "local"], 0, 1)
PersistedStore == [t \in {"tasks"} |-> <<PersistedEntry>>]

InitRestart ==
  /\ authToken = FALSE
  /\ isOnline \in BOOLEAN
  /\ syncInterval = FALSE
  /\ pendingChanges = EmptyStore
  /\ lastSyncTimestamp = None
  /\ localStorage = [aigenda_pending_changes |-> Some(JSONstringify(PersistedStore)),
                     aigenda_last_sync |-> None]
  /\ clock = 1
  /\ cycles = [s \in Slots |-> IdleCycle]
  /\ nextUid = 2
  /\ nSyncs = 0
  /\ last = NoEvent

\* the server may also answer a POST with a response whose processing throws
NextRestart ==
  \/ Next
  \/ \E s \in Slots, broken \in BrokenMembers :
       \E response \in ThrowResponses(cycles[s].body) : PushThrew(s, response, broken)

SpecRestart == InitRestart /\ [][NextRestart]_vars

\* ------------------------------------------------------- storage that fails
\* a storage write succeeds or throws (quota exceeded)
StorageFails == BOOLEAN

\* the server accepts every pushed change
AcceptAll(body) ==
  [syncedIds |-> AllSynced(body), conflicts |-> EmptyStore, errors |-> EmptyStore]

\* the run under failing storage: creates of one entity type, a server that
\* accepts what is pushed
NextOutage ==
  \/ Tick
  \/ initialize
  \/ \E online \in BOOLEAN : handleOnlineStatusChange(online)
  \/ TimerTick
  \/ \E saved \in StorageFails : queueChange("tasks", "create", None, 1, saved)
  \/ \E s \in Slots : PullFailed(s)
  \/ \E s \in Slots : PushIssued(s)
  \/ \E s \in Slots, stored \in StorageFails : PushSkipped(s, stored)
  \/ \E s \in Slots : PushFailed(s)
  \/ \E s \in Slots, saved \in StorageFails, stored \in StorageFails :
       PushSucceeded(s, AcceptAll(cycles[s].body), saved, stored)
  \/ clearAll

SpecOutage == Init /\ [][NextOutage]_vars

\* ------------------------------------------------------------------ claims
\* every entry of the store, and the entry created as number u
Entries(store) == UNION {{store[t][i] : i \in 1..Len(store[t])} : t \in DOMAIN store}
InFlight == {s \in Slots : cycles[s].pc # "idle"}
Pushing == {s \in Slots : cycles[s].pc = "push"}
Uids(store) == {e.uid : e \in Entries(store)}

\* C1: sync cycles never overlap: at most one syncData cycle is in progress
\* in any reachable state, whatever triggered it.
C1_NoOverlap == Cardinality(InFlight) <= 1

\* C2: no entry is contained in the bodies of two POST /api/sync requests
\* that are in flight at the same time.
C2_NoDoubleSubmit ==
  \A s1 \in Pushing, s2 \in Pushing :
    s1 # s2 => Uids(cycles[s1].body) \cap Uids(cycles[s2].body) = {}

\* the slot whose cycle ends in this step
Ending(s) == cycles[s].pc # "idle" /\ cycles'[s].pc = "idle"
TheCheckpoint == <<lastSyncTimestamp, localStorage["aigenda_last_sync"]>>

\* C3: a POST is issued only by a cycle whose GET has succeeded, and a cycle
\* whose GET fails ends there: it issues no POST and leaves the checkpoint, in
\* memory and in storage, as it was.
C3_PullBeforePush ==
  [][ /\ \A s \in Slots :
           (cycles'[s].pc = "push" /\ cycles[s].pc # "push")
             => (cycles[s].pc = "pull" /\ last'.op = "pushIssued")
      /\ last'.op = "pullFailed"
           => /\ TheCheckpoint' = TheCheckpoint
              /\ \E s \in Slots : cycles[s].pc = "pull" /\ cycles'[s].pc = "idle"
              /\ \A s \in Slots : cycles'[s].pc = "push" => cycles[s].pc = "push"
    ]_vars

\* a cycle's pull has just failed although changes wait to be pushed and a
\* checkpoint exists
C3_Witness ==
  /\ last.op = "pullFailed"
  /\ getUnsynced(pendingChanges) # EmptyStore
  /\ lastSyncTimestamp # None

\* C4: a cycle changes the checkpoint only when its pull and its push both
\* succeeded (a skipped push counts as succeeded); the step that ends a cycle
\* whose push failed leaves lastSyncTimestamp and the stored value unchanged.
C4_CheckpointOnlyOnSuccess ==
  [][ /\ last'.op = "pushFailed" => TheCheckpoint' = TheCheckpoint
      /\ (last'.op # "none" /\ TheCheckpoint' # TheCheckpoint)
           => last'.op \in {"pushSucceeded", "pushSkipped"}
    ]_vars

\* a push has just failed after the clock moved past the checkpoint
C4_Witness ==
  /\ last.op = "pushFailed"
  /\ lastSyncTimestamp # None
  /\ Val(lastSyncTimestamp) < clock

\* C5: when a cycle succeeds the checkpoint is the clock value read when that
\* cycle started, also when the push was skipped.
C5_CheckpointIsCycleStart ==
  [][ (last'.op \in {"pushSucceeded", "pushSkipped"} /\ last'.result = "true")
        => \A s \in Slots : Ending(s) => lastSyncTimestamp' = Some(cycles[s].start)
    ]_vars

\* C6: no entry has both an error attached and synced = true, in any
\* reachable state.
C6_OneOutcome ==
  \A e \in Entries(pendingChanges) : ~(e.error # None /\ e.synced)

\* the entry of es that resolveConflicts and handleSyncErrors pick for id:
\* the first one with that id that is not yet synced (0 when there is none)
FirstUnsynced(es, id) ==
  LET Hit(e) == e.data.id = id /\ ~e.synced IN FindIndex(es, Hit)

\* the entry created as number u is in es and satisfies P
Holds(es, u, P(_)) == \E i \in 1..Len(es) : es[i].uid = u /\ P(es[i])
Absent(es, u) == \A i \in 1..Len(es) : es[i].uid # u

\* an entry the sweep of markChangesSynced drops once it is synced
Expired(e, now) == e.timestamp <= now - OneHour

\* the conflicts of the response just processed that name an id which
\* syncedIds names too and for which the store held a not-yet-synced entry:
\* <<entityType, conflict, that entry>>
ConflictAndSynced ==
  LET r == last'.response IN
  { <<t, r.conflicts[t][1],
      pendingChanges[t][FirstUnsynced(pendingChanges[t], r.conflicts[t][1].id)]>> :
      t \in { k \in DOMAIN r.conflicts \cap DOMAIN r.syncedIds \cap DOMAIN pendingChanges :
                /\ r.conflicts[k][1].id \in r.syncedIds[k]
                /\ FirstUnsynced(pendingChanges[k], r.conflicts[k][1].id) # 0 } }

Acknowledged ==
  LET r == last'.response IN
  UNION { { <<t, pendingChanges[t][i]>> :
              i \in { j \in 1..Len(pendingChanges[t]) :
                        pendingChanges[t][j].data.id \in r.syncedIds[t] } } :
          t \in DOMAIN r.syncedIds \cap DOMAIN pendingChanges }

IsSynced(e) == e.synced

IdsOf(store) == { e.data.id : e \in Entries(store) }
Mappings(store) ==
  UNION { [K -> SUBSET IdsOf(store)] : K \in SUBSET EntityTypes }

\* C9: markChangesSynced is idempotent: for every store and every syncedIds
\* mapping, a second call with the same mapping at the same clock value
\* leaves the store exactly as the first call left it.
C9_MarkIdempotent ==
  \A m \in Mappings(pendingChanges) :
    LET once == markChangesSynced(pendingChanges, m, clock)
    IN  markChangesSynced(once, m, clock) = once

\* a store and a mapping on which the first call both marks an entry and
\* sweeps one away
C9_Witness ==
  \E m \in Mappings(pendingChanges) :
    LET once == markChangesSynced(pendingChanges, m, clock)
    IN  /\ Cardinality(Uids(once)) < Cardinality(Uids(pendingChanges))
        /\ \E e \in Entries(once) :
             e.synced /\ \E f \in Entries(pendingChanges) : f.uid = e.uid /\ ~f.synced

\* the calls that change the store: queueChange, and the processing of a push
\* response (conflict resolution, error attachment, mark-synced)
MutatingCall == nextUid' # nextUid \/ last'.op = "pushSucceeded"

\* C10: an entry with synced = true whose timestamp is more than one hour
\* before the current clock is absent from the store after any subsequent
\* mutating call, for every entity type and whichever types the call names.
C10_SweptByAnyCall ==
  [][ MutatingCall =>
        \A t \in DOMAIN pendingChanges :
          \A i \in 1..Len(pendingChanges[t]) :
            (pendingChanges[t][i].synced /\ pendingChanges[t][i].timestamp < clock - OneHour)
              => Absent(pendingChanges'[t], pendingChanges[t][i].uid)
    ]_vars

\* C11: an entry with synced = false is never removed by the retention sweep,
\* whatever its age: after any markChangesSynced call the entries still
\* unsynced after the marking step (unsynced before, id not named for their
\* entity type) are all in the store, in the same relative order.
C11_UnsyncedNeverSwept ==
  \A m \in Mappings(pendingChanges) :
    LET once == markChangesSynced(pendingChanges, m, clock) IN
    \A t \in DOMAIN pendingChanges :
      LET StillUnsynced(e) == ~e.synced /\ (t \in DOMAIN m => e.data.id \notin m[t])
      IN  SelectSeq(pendingChanges[t], StillUnsynced) = SelectSeq(once[t], IsUnsynced)

\* a call that sweeps an entry away and keeps an unsynced one of the same
\* entity type that is an hour old
C11_Witness ==
  \E m \in Mappings(pendingChanges) :
    LET once == markChangesSynced(pendingChanges, m, clock) IN
    \E t \in DOMAIN m \cap DOMAIN pendingChanges :
      /\ Len(once[t]) < Len(pendingChanges[t])
      /\ \E i \in 1..Len(once[t]) : ~once[t][i].synced /\ Expired(once[t][i], clock)

\* where the entry created as number u stands in es
Pos(es, u) == CHOOSE k \in 1..Len(es) : es[k].uid = u

\* C12: getUnsynced returns, for every store, exactly the entries with
\* synced = false grouped by entity type in store order, with no key for an
\* entity type that has no unsynced entry; so the result is the empty mapping
\* exactly when no entry of the store is unsynced.
C12_GetUnsynced ==
  LET u == getUnsynced(pendingChanges)
      UnsyncedUids(t) == { pendingChanges[t][i].uid :
                             i \in { k \in 1..Len(pendingChanges[t]) :
                                       ~pendingChanges[t][k].synced } }
  IN  /\ DOMAIN u = { t \in DOMAIN pendingChanges : UnsyncedUids(t) # {} }
      /\ \A t \in DOMAIN u :
           /\ { u[t][i].uid : i \in 1..Len(u[t]) } = UnsyncedUids(t)
           /\ Len(u[t]) = Cardinality(UnsyncedUids(t))
           /\ \A i \in 1..Len(u[t]) :
                /\ ~u[t][i].synced
                /\ u[t][i] = pendingChanges[t][Pos(pendingChanges[t], u[t][i].uid)]
           /\ \A i, j \in 1..Len(u[t]) :
                i < j => Pos(pendingChanges[t], u[t][i].uid) < Pos(pendingChanges[t], u[t][j].uid)
      /\ (u = EmptyStore) <=> (\A e \in Entries(pendingChanges) : e.synced)

\* a store with an entity type all of whose entries are synced, left out of
\* the result, and another with an unsynced entry
C12_Witness ==
  /\ \E t \in DOMAIN pendingChanges :
       /\ pendingChanges[t] # <<>>
       /\ t \notin DOMAIN getUnsynced(pendingChanges)
  /\ getUnsynced(pendingChanges) # EmptyStore

\* the terminal errors of the response just processed whose entity type the
\* syncedIds name too, without naming the errored id, and for which the store
\* held a not-yet-synced entry: <<entityType, error, that entry>>
ErrorAndOthersSynced ==
  LET r == last'.response IN
  { <<t, r.errors[t][1],
      pendingChanges[t][FirstUnsynced(pendingChanges[t], r.errors[t][1].id)]>> :
      t \in { k \in DOMAIN r.errors \cap DOMAIN r.syncedIds \cap DOMAIN pendingChanges :
                /\ r.errors[k][1].code \in TerminalCodes
                /\ r.errors[k][1].id \notin r.syncedIds[k]
                /\ FirstUnsynced(pendingChanges[k], r.errors[k][1].id) # 0 } }

\* the entries of entity type t the syncedIds of that response name
NamedIn(t) ==
  { pendingChanges[t][i] :
      i \in { j \in 1..Len(pendingChanges[t]) :
                pendingChanges[t][j].data.id \in last'.response.syncedIds[t] } }

AppendedTo(t) ==
  LET old == EntriesOf(pendingChanges, t)
      new == pendingChanges'[t]
  IN  /\ Len(new) = Len(old) + 1
      /\ SubSeq(new, 1, Len(old)) = old
      /\ ~new[Len(new)].synced
      /\ new[Len(new)].error = None
      /\ last'.result = new[Len(new)].data.id

\* the store of the step's end is what storage holds
StoreWritten ==
  /\ localStorage'["aigenda_pending_changes"] # None
  /\ JSONparse(Val(localStorage'["aigenda_pending_changes"])) = pendingChanges'

\* the id a create without a supplied id returned is a fresh local_ id
FreshLocalId(t) ==
  LET e == pendingChanges'[t][Len(pendingChanges'[t])]
  IN  e.action = "create" =>
        /\ e.data.id[1] = "local_"
        /\ \A f \in Entries(pendingChanges) : f.data.id # e.data.id

\* C14: queueChange appends exactly one entry with synced = false and no error
\* at the end of its entity type's sequence, leaves every other entry and the
\* checkpoint unchanged, writes the full store to storage and returns the id
\* stored in the new entry's data; for a create without a supplied id that id
\* starts with local_ and differs from the id of every entry already stored.
C14_QueueChange ==
  [][ last'.op = "queueChange" =>
        /\ \E t \in DOMAIN pendingChanges' :
             /\ AppendedTo(t)
             /\ FreshLocalId(t)
             /\ DOMAIN pendingChanges' = DOMAIN pendingChanges \cup {t}
             /\ \A k \in DOMAIN pendingChanges \ {t} : pendingChanges'[k] = pendingChanges[k]
        /\ TheCheckpoint' = TheCheckpoint
        /\ StoreWritten
    ]_vars

\* a step in which a new cycle starts: its GET /api/sync is issued
Started(s) ==
  /\ cycles[s].pc = "idle"
  /\ cycles'[s].pc = "pull"
  /\ cycles'[s].start = clock

\* C15: every offline -> online transition triggers a sync attempt at once:
\* with an auth token set, the pull request of a new cycle is issued by the
\* online event itself, not by the next timer tick.
C15_OnlineTriggersSync ==
  [][ (~isOnline /\ isOnline' /\ authToken) => \E s \in Slots : Started(s) ]_vars

\* the online event has just run with a token set, and a cycle begun at this
\* moment awaits its pull
C15_Witness ==
  /\ last.op = "statusChange"
  /\ isOnline
  /\ authToken
  /\ \E s \in Slots : cycles[s].pc = "pull" /\ cycles[s].start = clock

\* C16: an online -> offline transition during a cycle does not abort it: a
\* cycle awaiting its pull can still go on to its push (or skip it), a cycle
\* awaiting its push can still process the response, and a successful end
\* updates the checkpoint, whatever the connectivity flag says; and while the
\* flag is offline no timer tick, queueChange or other call starts a cycle.
C16_OfflineDoesNotAbort ==
  /\ [](\A s \in Slots :
          /\ cycles[s].pc = "pull" => ENABLED (PushIssued(s) \/ PushSkipped(s, TRUE))
          /\ cycles[s].pc = "push" => ENABLED PushSucceeded(s, NoResponse, TRUE, TRUE))
  /\ [][ /\ last'.op \in {"pushSucceeded", "pushSkipped"} =>
              lastSyncTimestamp' = Some(clock)
         /\ ~isOnline' => \A s \in Slots : cycles[s].pc = "idle" => cycles'[s].pc = "idle"
       ]_vars

\* a cycle has just processed its push response and updated the checkpoint
\* while the device was offline
C16_Witness ==
  /\ last.op = "pushSucceeded"
  /\ ~isOnline
  /\ lastSyncTimestamp = Some(clock)

\* the entry a queueChange step has queued is among the unsynced ones
QueuedIsUnsynced ==
  \E t \in DOMAIN getUnsynced(pendingChanges') :
    \E i \in 1..Len(getUnsynced(pendingChanges')[t]) :
      getUnsynced(pendingChanges')[t][i].uid = nextUid

\* C17: write-through: whenever queueChange succeeds while online, with an
\* auth token set and no cycle in progress, a cycle is started synchronously,
\* its pull request issued before queueChange returns; when queueChange is
\* called while offline no network request is issued and the new entry is
\* returned by getUnsynced.
C17_WriteThrough ==
  [][ last'.op = "queueChange" =>
        /\ (isOnline /\ authToken /\ InFlight = {}) => \E s \in Slots : Started(s)
        /\ ~isOnline => (cycles' = cycles /\ QueuedIsUnsynced)
    ]_vars

\* queueChange has just run online with a token, and the only cycle in
\* progress is the one it started
C17_Witness ==
  /\ last.op = "queueChange"
  /\ isOnline
  /\ authToken
  /\ Cardinality(InFlight) = 1
  /\ \A s \in InFlight : cycles[s].pc = "pull" /\ cycles[s].start = clock

C19_SinceIsCheckpoint ==
  [][ \A s \in Slots :
        Started(s) =>
          cycles'[s].since = IF lastSyncTimestamp' = None THEN 0
                             ELSE Val(lastSyncTimestamp')
    ]_vars

\* a pull issued at this moment carries the checkpoint an earlier cycle set
C19_Witness ==
  \E s \in Slots :
    /\ cycles[s].pc = "pull"
    /\ cycles[s].start = clock
    /\ lastSyncTimestamp # None
    /\ cycles[s].since = Val(lastSyncTimestamp)
    /\ cycles[s].since > 0
    /\ cycles[s].since < clock

\* the conflicts of the response just processed that resolveConflicts applied:
\* <<entityType, conflict>>
Resolved ==
  LET r == last'.response IN
  { <<t, r.conflicts[t][1]>> :
      t \in { k \in DOMAIN r.conflicts \cap DOMAIN pendingChanges :
                FirstUnsynced(pendingChanges[k], r.conflicts[k][1].id) # 0 } }

\* C20: whenever resolveConflicts overwrites an entry with the server version,
\* an updated notification for that entity type carrying serverVersion is
\* emitted during the processing of that push response.
C20_ResolvedIsNotified ==
  [][ last'.op = "pushSucceeded" =>
        \A x \in Resolved :
          \E n \in DispatchedByPushResponse(last'.response) :
            /\ n.name = <<"aigenda:", x[1], ":updated">>
            /\ \E i \in 1..Len(n.detail) : n.detail[i] = x[2].serverVersion
    ]_vars

\* what a new instance holds after loadPendingChangesFromStorage over ls
Restored(ls) ==
  << IF ls["aigenda_pending_changes"] # None
     THEN JSONparse(Val(ls["aigenda_pending_changes"])) ELSE EmptyStore,
     IF ls["aigenda_last_sync"] # None
     THEN Some(ParseInt(Val(ls["aigenda_last_sync"]))) ELSE None >>

\* the ends of the operations that change the store or the checkpoint
MutationEnds ==
  {"queueChange", "pullFailed", "pushSkipped", "pushFailed", "pushSucceeded", "pushThrew"}

\* C21: restart round-trip: whenever control is outside a mutating operation
\* and the storage writes have succeeded, the persisted blob decodes to the
\* in-memory store and the persisted last-sync value equals the in-memory
\* checkpoint, so that a restart followed by loadPendingChangesFromStorage
\* restores the same store and checkpoint.
C21_RestartRoundTrip ==
  [][ last'.op \in MutationEnds =>
        Restored(localStorage') = <<pendingChanges', lastSyncTimestamp'>>
    ]_vars

CycleEnds == {"pullFailed", "pushSkipped", "pushFailed", "pushSucceeded", "pushThrew"}

\* the step's write of the checkpoint to storage failed
CheckpointWriteFailed ==
  /\ last'.op \in {"pushSkipped", "pushSucceeded"}
  /\ localStorage'["aigenda_last_sync"] # Some(NumToString(clock))

\* C23: network and storage errors never escape: for every failure of the
\* pull request, of the push request or of a storage access, syncData
\* resolves to a boolean, false on failure, and never rejects; and queueChange
\* returns the id of its entry also when its storage write fails.
C23_ErrorsNeverEscape ==
  [][ /\ last'.op \in CycleEnds =>
           /\ last'.result \in {"true", "false"}
           /\ (last'.op \in {"pullFailed", "pushFailed"} \/ CheckpointWriteFailed) =>
                last'.result = "false"
      /\ last'.op = "queueChange" =>
           \E e \in Entries(pendingChanges') : e.uid = nextUid /\ e.data.id = last'.result
    ]_vars

\* a cycle has just ended whose write of the checkpoint failed: it resolved
\* to false
C23_Witness ==
  /\ last.op \in {"pushSkipped", "pushSucceeded"}
  /\ last.result = "false"
  /\ lastSyncTimestamp = Some(clock)
  /\ localStorage["aigenda_last_sync"] # Some(NumToString(clock))

\* the entries of store es that a push would send
UnsyncedUids(es) == {e.uid : e \in {x \in Entries(es) : ~x.synced}}

\* C24: when the push phase ends by an exception, the failed request or a
\* failure while the response is processed, the cycle reports failure and no
\* entry's synced, data or error field differs from before, so that every
\* entry that was unsynced is sent by the next push.
C24_PushExceptionLeavesStore ==
  [][ last'.op \in {"pushFailed", "pushThrew"} =>
        /\ last'.result = "false"
        /\ pendingChanges' = pendingChanges
        /\ UnsyncedUids(getUnsynced(pendingChanges')) = UnsyncedUids(pendingChanges)
    ]_vars

\* the entries that carry a terminal error and are not synced
TerminalErrored(store) ==
  {e \in Entries(store) : /\ ~e.synced
                          /\ e.error # None
                          /\ Val(e.error).code \in TerminalCodes}

\* the step is a call of clearAll
ClearAllStep ==
  /\ last' = NoEvent
  /\ pendingChanges' = EmptyStore
  /\ localStorage' = [aigenda_pending_changes |-> None, aigenda_last_sync |-> None]

\* C25: an entry with a terminal error attached (INVALID_DATA or
\* PERMISSION_DENIED) keeps synced = false and its error and is in the body
\* of every push request issued later, until clearAll.
C25_TerminalErrorIsKept ==
  [][ ~ClearAllStep =>
        \A e \in TerminalErrored(pendingChanges) :
          /\ \E f \in TerminalErrored(pendingChanges') : f.uid = e.uid
          /\ \A s \in Slots :
               (cycles[s].pc = "pull" /\ cycles'[s].pc = "push")
                 => e.uid \in Uids(cycles'[s].body)
    ]_vars

\* the entries that the push whose response the step processes had in its body
PushedByEnding == UNION {IF Ending(s) THEN Uids(cycles[s].body) ELSE {} : s \in Slots}

\* the entries that are unsynced before the step and synced, or synced and
\* swept, after it
BecomeSynced ==
  {e \in Entries(pendingChanges) :
     /\ ~e.synced
     /\ \/ \E f \in Entries(pendingChanges') : f.uid = e.uid /\ f.synced
        \/ last'.op = "pushSucceeded" /\ e.uid \notin Uids(pendingChanges')}

\* C26: an entry is set to synced = true only while the response of a push
\* request whose body contained that very entry is processed: an entry
\* enqueued while the push was in flight stays unsynced, also when it has the
\* id of a pushed entry and syncedIds lists that id.
C26_SyncedOnlyIfPushed ==
  [][ \A e \in BecomeSynced :
        last'.op = "pushSucceeded" /\ e.uid \in PushedByEnding ]_vars

\* the step is a call of initialize
InitializeStep == ~syncInterval /\ syncInterval' /\ last' = NoEvent

\* the unsynced entries of the persisted blob
PersistedUnsynced(ls) == UnsyncedUids(Restored(ls)[1])

\* C27: no persisted unsynced entry is lost by a queueChange or an initialize
\* call: an entry that is unsynced in the persisted blob is still in the blob
\* after the call, and in memory once initialize has loaded the blob, also
\* when queueChange is called before initialize.
C27_PersistedNeverLost ==
  [][ /\ (last'.op = "queueChange" \/ InitializeStep)
           => PersistedUnsynced(localStorage) \subseteq Uids(Restored(localStorage')[1])
      /\ InitializeStep
           => PersistedUnsynced(localStorage) \subseteq Uids(pendingChanges')
    ]_vars

\* what clearAll leaves: the store empty, the checkpoint null, both keys
\* absent, the timer disarmed
Cleared ==
  /\ pendingChanges = EmptyStore
  /\ lastSyncTimestamp = None
  /\ localStorage = [aigenda_pending_changes |-> None, aigenda_last_sync |-> None]
  /\ ~syncInterval

\* C28: clearAll is final with respect to in-flight work: the store is empty,
\* the checkpoint null, both persisted keys absent and the timer disarmed
\* after it, and this still holds until the next queueChange or initialize,
\* also when a cycle was awaiting a response when clearAll was called.
C28_ClearAllIsFinal ==
  [][ (Cleared /\ last'.op # "queueChange" /\ ~InitializeStep) => Cleared' ]_vars

\* the conflicts of entity type t in the response just processed
ConflictsOf(t) ==
  LET c == last'.response.conflicts
  IN  IF t \in DOMAIN c THEN {c[t][i] : i \in 1..Len(c[t])} ELSE {}

\* C29: server-wins covers every pushed entry of the conflicting id: after
\* the response with a conflict {id, serverVersion} is processed, every entry
\* of that type that was in the push body with data.id = id has
\* data = serverVersion and synced = true (or was swept as synced).
C29_ServerWinsCoversAll ==
  [][ last'.op = "pushSucceeded" =>
        \A s \in Slots : Ending(s) =>
          \A t \in DOMAIN cycles[s].body : \A c \in ConflictsOf(t) :
            \A i \in 1..Len(cycles[s].body[t]) :
              LET e == cycles[s].body[t][i] IN
              e.data.id = c.id =>
                \A f \in Entries(pendingChanges') :
                  f.uid = e.uid => (f.data = c.serverVersion /\ f.synced)
    ]_vars

\* C30: a storage write failure while the checkpoint is persisted does not
\* change the cycle's outcome: a cycle whose pull and push succeeded reports
\* success, and a cycle that reports failure leaves the in-memory
\* lastSyncTimestamp as it was.
C30_CheckpointWriteFailure ==
  [][ /\ last'.op \in {"pushSkipped", "pushSucceeded"} => last'.result = "true"
      /\ (last'.op \in CycleEnds /\ last'.result = "false")
           => lastSyncTimestamp' = lastSyncTimestamp
    ]_vars

====
